---- MODULE Spec2Model ----
(***************************************************************************)
(* Offline-first persistence and synchronisation core of the Blue Carbon   *)
(* Registry mobile application (src/blue-carbon-mobile-app.js, App()).     *)
(*                                                                         *)
(* The model follows the React component: the useState cells are the       *)
(* volatile state, AsyncStorage is the durable store, and every async      *)
(* handler is a task that advances from one await to the next.  A handler  *)
(* reads the state cells of the render in which it was started, so values  *)
(* used after an await are the ones captured when the handler began.       *)
(* AsyncStorage serves its requests one at a time, in the order in which   *)
(* they were made; timers and native callbacks fire in any order.          *)
(*                                                                         *)
(* Numbers with decimals are kept in hundredths (150.5 is 15050).          *)
(***************************************************************************)
EXTENDS Integers, Sequences, FiniteSets, TLC

VARIABLES
    mounted,      \* the component is mounted and its mount effect has run
    isConnected,  \* useState(true), line 35
    isLoading,    \* useState(false), line 33
    refreshing,   \* useState(false), line 34
    projects,     \* useState([]), line 37
    mrvData,      \* useState([]), line 38
    credits,      \* useState([]), line 39
    mrvProjectId, \* mrvForm.projectId, line 57
    disk,         \* AsyncStorage: storage key -> stored item
    storageQueue, \* handlers waiting for AsyncStorage, in the order of their requests
    timers,       \* handlers waiting for a timer or a native callback
    pushLog,      \* records whose syncWithServer call has resolved (line 309)
    alert,        \* the Alert.alert raised by the latest step, NoAlert if none
    now,          \* the clock read by new Date()
    restarts      \* number of times the application was restarted

vars == << mounted, isConnected, isLoading, refreshing, projects, mrvData,
           credits, mrvProjectId, disk, storageQueue, timers, pushLog, alert,
           now, restarts >>

----------------------------------------------------------------------------
(* Bounds of the model *)

\* submissions that pass validation (each reads the clock once)
MaxClock == 2
\* application restarts
MaxRestarts == 1
\* async handlers in flight at the same time
MaxTasks == 2

----------------------------------------------------------------------------
(* JavaScript values *)

Num(n) == [t |-> "number", v |-> n]
NaN == [t |-> "NaN"]
JsNull == [t |-> "null"]

Has(r, f) == f \in DOMAIN r

\* parseFloat on the texts the forms of this model can hold, in hundredths
parseFloat(s) ==
    CASE s = "10.0"  -> Num(1000)
      [] s = "100.5" -> Num(10050)
      [] s = "0.65"  -> Num(65)
      [] s = "0"     -> Num(0)
      [] s = "-5"    -> Num(-500)
      [] OTHER       -> NaN

\* parseInt on the texts the forms of this model can hold (whole numbers)
parseInt(s) ==
    CASE s = "25" -> Num(25)
      [] OTHER    -> NaN

\* Number.prototype.toString for the identifiers of this model
IdToString(n) ==
    CASE n = 1 -> "1" [] n = 2 -> "2" [] n = 3 -> "3" [] n = 4 -> "4"
      [] n = 5 -> "5" [] n = 6 -> "6" [] n = 7 -> "7" [] OTHER -> "8"

\* JSON.stringify of one value: NaN is written as null
StringifyValue(x) ==
    IF Has(x, "t") /\ x.t = "NaN" THEN JsNull ELSE x

JsFields == {"area", "duration", "expectedCarbon"}

\* JSON.stringify of one record: absent properties stay absent
StringifyRecord(r) ==
    [f \in DOMAIN r |-> IF f \in JsFields THEN StringifyValue(r[f]) ELSE r[f]]

\* JSON.stringify of a collection, as the text AsyncStorage keeps
Stringify(data) == [i \in 1..Len(data) |-> StringifyRecord(data[i])]

NoItem == [t |-> "null"]
Item(json) == [t |-> "json", v |-> json]

\* a stored item whose text is no JSON document
Corrupt == [t |-> "corrupt"]

\* JSON.parse of a stored item
Parse(item) == item.v

\* JSON.parse returns a value for the item instead of throwing
Parses(item) == item.t = "json"

StorageKeys == {"projects", "mrvData", "credits"}

----------------------------------------------------------------------------
(* Sample data, lines 125-154 *)

\* sampleProjects with two digits of the first creditsIssued exchanged
\* (1865.27 for 1665.27)
sampleProjects_DigitsExchanged ==
    << [id |-> 1, name |-> "Sundarbans Mangrove Restoration",
        ecosystem |-> "mangrove", coordinates |-> "22.2587, 89.9101",
        area |-> Num(15050), proponent |-> "Bengal Coastal Conservation Society",
        methodology |-> "VM0033", duration |-> Num(25),
        expectedCarbon |-> Num(225050), status |-> "active",
        carbonSequestered |-> 185030, creditsIssued |-> 186527],
       [id |-> 2, name |-> "Kerala Backwater Seagrass Project",
        ecosystem |-> "seagrass", coordinates |-> "9.4981, 76.3388",
        area |-> Num(8520), proponent |-> "Malabar Marine Foundation",
        methodology |-> "VM0033", duration |-> Num(20),
        expectedCarbon |-> Num(142050), status |-> "active",
        carbonSequestered |-> 89210, creditsIssued |-> 80289] >>

sampleProjects ==
    << [id |-> 1, name |-> "Sundarbans Mangrove Restoration",
        ecosystem |-> "mangrove", coordinates |-> "22.2587, 89.9101",
        area |-> Num(15050), proponent |-> "Bengal Coastal Conservation Society",
        methodology |-> "VM0033", duration |-> Num(25),
        expectedCarbon |-> Num(225050), status |-> "active",
        carbonSequestered |-> 185030, creditsIssued |-> 166527],
       [id |-> 2, name |-> "Kerala Backwater Seagrass Project",
        ecosystem |-> "seagrass", coordinates |-> "9.4981, 76.3388",
        area |-> Num(8520), proponent |-> "Malabar Marine Foundation",
        methodology |-> "VM0033", duration |-> Num(20),
        expectedCarbon |-> Num(142050), status |-> "active",
        carbonSequestered |-> 89210, creditsIssued |-> 80289] >>

----------------------------------------------------------------------------
(* Form contents *)

\* projectForm as initialised at lines 44-54
emptyProjectForm ==
    [name |-> "", ecosystem |-> "mangrove", coordinates |-> "", area |-> "",
     proponent |-> "", methodology |-> "VM0033", duration |-> "",
     expectedCarbon |-> "", description |-> ""]

\* what the user can have typed into the project form when pressing submit
ProjectForms ==
    { [emptyProjectForm EXCEPT !.name = "Mangrove Test", !.area = "10.0",
                               !.proponent = "Org"],
      [emptyProjectForm EXCEPT !.area = "10.0", !.proponent = "Org"],
      [emptyProjectForm EXCEPT !.name = "Mangrove Test", !.proponent = "Org"],
      [emptyProjectForm EXCEPT !.name = "Mangrove Test", !.area = "10.0"] }

\* complete project forms whose area text is no positive number
AreaForms ==
    { [emptyProjectForm EXCEPT !.name = "Mangrove Test", !.area = a,
                               !.proponent = "Org"] : a \in {"0", "-5", "abc"} }

\* the measurement fields of mrvForm as initialised at lines 56-67
emptyMrvFields ==
    [date |-> "today", soilCarbon |-> "", ndviValue |-> "", canopyHeight |-> "",
     dbh |-> "", treeHeight |-> "", survivalRate |-> "", species |-> "",
     photos |-> << >>]

\* what the user can have typed into the measurement fields
MrvFields ==
    { [emptyMrvFields EXCEPT !.ndviValue = "0.65"] }

----------------------------------------------------------------------------
(* The durable store and the tasks *)

\* the sequence s without its i-th element
RemoveAt(s, i) == SubSeq(s, 1, i - 1) \o SubSeq(s, i + 1, Len(s))

NoAlert == [title |-> "none"]

\* saveLocalData writing every collection under the key 'projects'
saveLocalData_OneKey(key, data, ok) ==
    IF ok THEN [disk EXCEPT !["projects"] = Item(Stringify(data))] ELSE disk

\* saveLocalData, lines 115-121: the store after AsyncStorage.setItem(key,
\* JSON.stringify(data)); ok = FALSE is a rejected write, which the catch
\* block logs and swallows
saveLocalData(key, data, ok) ==
    IF ok THEN [disk EXCEPT ![key] = Item(Stringify(data))] ELSE disk

\* newProject with the identifier taken as the count of existing records
\* instead of the count plus one
newProject_IdIsCount(form, ps, clock) ==
    [id |-> Len(ps),
     name |-> form.name, ecosystem |-> form.ecosystem,
     coordinates |-> form.coordinates, proponent |-> form.proponent,
     methodology |-> form.methodology, description |-> form.description,
     area |-> parseFloat(form.area),
     duration |-> parseInt(form.duration),
     expectedCarbon |-> parseFloat(form.expectedCarbon),
     status |-> "pending",
     carbonSequestered |-> 0,
     creditsIssued |-> 0,
     registrationDate |-> clock]

\* the record built at lines 227-237 from the form, the projects of the
\* current render and the clock
newProject(form, ps, clock) ==
    [id |-> Len(ps) + 1,
     name |-> form.name, ecosystem |-> form.ecosystem,
     coordinates |-> form.coordinates, proponent |-> form.proponent,
     methodology |-> form.methodology, description |-> form.description,
     area |-> parseFloat(form.area),
     duration |-> parseInt(form.duration),
     expectedCarbon |-> parseFloat(form.expectedCarbon),
     status |-> "pending",
     carbonSequestered |-> 0,
     creditsIssued |-> 0,
     registrationDate |-> clock]

\* the record built at lines 273-278 from mrvForm, the mrvData and the
\* connectivity of the current render and the clock
newMrvData(projectId, fields, ms, conn, clock) ==
    [id |-> Len(ms) + 1,
     projectId |-> projectId,
     date |-> fields.date, soilCarbon |-> fields.soilCarbon,
     ndviValue |-> fields.ndviValue, canopyHeight |-> fields.canopyHeight,
     dbh |-> fields.dbh, treeHeight |-> fields.treeHeight,
     survivalRate |-> fields.survivalRate, species |-> fields.species,
     photos |-> fields.photos,
     timestamp |-> clock,
     synced |-> conn]

\* projectFormRejected without the test of the proponent
projectFormRejected_SkipsProponent(form) ==
    form.name = "" \/ form.area = ""

\* the test of line 220
projectFormRejected(form) ==
    form.name = "" \/ form.area = "" \/ form.proponent = ""

\* the test of line 266
mrvFormRejected(projectId) == projectId = ""

----------------------------------------------------------------------------
(* Initial state: a fresh installation before the component is mounted *)

Init ==
    /\ mounted = FALSE
    /\ isConnected = TRUE
    /\ isLoading = FALSE
    /\ refreshing = FALSE
    /\ projects = << >>
    /\ mrvData = << >>
    /\ credits = << >>
    /\ mrvProjectId = ""
    /\ disk = [k \in StorageKeys |-> NoItem]
    /\ storageQueue = << >>
    /\ timers = << >>
    /\ pushLog = {}
    /\ alert = NoAlert
    /\ now = 0
    /\ restarts = 0

\* handlers in flight
InFlight == Len(storageQueue) + Len(timers)

----------------------------------------------------------------------------
(* Start-up *)

\* the task loadLocalData leaves behind at its first await, line 102
loadTask(isRefresh) == [kind |-> "load", pc |-> "getProjects", refresh |-> isRefresh]

\* the mount effect, lines 70-75: loadLocalData runs up to its first await,
\* checkNetworkConnection subscribes, loadSampleData (lines 124-157) replaces
\* projects and starts an unawaited saveLocalData
Mount ==
    /\ ~mounted
    /\ mounted' = TRUE
    /\ projects' = sampleProjects
    /\ storageQueue' = << loadTask(FALSE),
                          [kind |-> "save", key |-> "projects", data |-> sampleProjects] >>
    /\ alert' = NoAlert
    /\ UNCHANGED << isConnected, isLoading, refreshing, mrvData, credits,
                    mrvProjectId, disk, timers, pushLog, now, restarts >>

\* the process is killed and started again: every useState cell is back at its
\* initial value (lines 32-67), handlers in flight are gone, the durable store
\* and the server keep what they have
Restart ==
    /\ mounted
    /\ restarts < MaxRestarts
    /\ restarts' = restarts + 1
    /\ mounted' = FALSE
    /\ isConnected' = TRUE
    /\ isLoading' = FALSE
    /\ refreshing' = FALSE
    /\ projects' = << >>
    /\ mrvData' = << >>
    /\ credits' = << >>
    /\ mrvProjectId' = ""
    /\ storageQueue' = << >>
    /\ timers' = << >>
    /\ alert' = NoAlert
    /\ UNCHANGED << disk, pushLog, now >>

\* NetChange marking every pending measurement as synced when the network
\* comes back
NetChange_SyncsOnReconnect(b) ==
    /\ mounted
    /\ isConnected' = b
    /\ mrvData' = IF b THEN [i \in 1..Len(mrvData) |-> [mrvData[i] EXCEPT !.synced = TRUE]]
                  ELSE mrvData
    /\ alert' = NoAlert
    /\ UNCHANGED << mounted, isLoading, refreshing, projects, credits,
                    mrvProjectId, disk, storageQueue, timers, pushLog, now, restarts >>

\* NetChange that only ever records the loss of the network
NetChange_StaysOffline(b) ==
    /\ mounted
    /\ isConnected' = (isConnected /\ b)
    /\ alert' = NoAlert
    /\ UNCHANGED << mounted, isLoading, refreshing, projects, mrvData, credits,
                    mrvProjectId, disk, storageQueue, timers, pushLog, now, restarts >>

\* the listener of lines 94-96
NetChange(b) ==
    /\ mounted
    /\ isConnected' = b
    /\ alert' = NoAlert
    /\ UNCHANGED << mounted, isLoading, refreshing, projects, mrvData, credits,
                    mrvProjectId, disk, storageQueue, timers, pushLog, now, restarts >>

----------------------------------------------------------------------------
(* loadLocalData, lines 100-112, and onRefresh, lines 316-320 *)

\* pull-to-refresh; RefreshControl does not call onRefresh while refreshing
Refresh ==
    /\ mounted
    /\ ~refreshing
    /\ InFlight < MaxTasks
    /\ refreshing' = TRUE
    /\ storageQueue' = Append(storageQueue, loadTask(TRUE))
    /\ alert' = NoAlert
    /\ UNCHANGED << mounted, isConnected, isLoading, projects, mrvData, credits,
                    mrvProjectId, disk, timers, pushLog, now, restarts >>

\* AsyncStorage.getItem('projects') is served (line 102) and loadLocalData
\* asks for 'mrvData' (line 103)
LoadGetProjects ==
    /\ storageQueue # << >>
    /\ LET t == Head(storageQueue) IN
       /\ t.kind = "load" /\ t.pc = "getProjects"
       /\ storageQueue' = Append(Tail(storageQueue),
              [kind |-> "load", pc |-> "getMrvData", refresh |-> t.refresh,
               storedProjects |-> disk["projects"]])
    /\ alert' = NoAlert
    /\ UNCHANGED << mounted, isConnected, isLoading, refreshing, projects, mrvData,
                    credits, mrvProjectId, disk, timers, pushLog, now, restarts >>

\* AsyncStorage.getItem('mrvData') is served (line 103) and loadLocalData
\* asks for 'credits' (line 104)
LoadGetMrvData ==
    /\ storageQueue # << >>
    /\ LET t == Head(storageQueue) IN
       /\ t.kind = "load" /\ t.pc = "getMrvData"
       /\ storageQueue' = Append(Tail(storageQueue),
              [kind |-> "load", pc |-> "getCredits", refresh |-> t.refresh,
               storedProjects |-> t.storedProjects,
               storedMrvData |-> disk["mrvData"]])
    /\ alert' = NoAlert
    /\ UNCHANGED << mounted, isConnected, isLoading, refreshing, projects, mrvData,
                    credits, mrvProjectId, disk, timers, pushLog, now, restarts >>

\* LoadApply adding the stored records to the collections in memory instead
\* of replacing them
LoadApply_Merges ==
    /\ storageQueue # << >>
    /\ LET t == Head(storageQueue) IN
       /\ t.kind = "load" /\ t.pc = "getCredits"
       /\ projects' = IF t.storedProjects # NoItem
                      THEN projects \o Parse(t.storedProjects) ELSE projects
       /\ mrvData' = IF t.storedMrvData # NoItem
                     THEN mrvData \o Parse(t.storedMrvData) ELSE mrvData
       /\ credits' = IF disk["credits"] # NoItem THEN Parse(disk["credits"]) ELSE credits
       /\ refreshing' = IF t.refresh THEN FALSE ELSE refreshing
    /\ storageQueue' = Tail(storageQueue)
    /\ alert' = NoAlert
    /\ UNCHANGED << mounted, isConnected, isLoading, mrvProjectId, disk, timers,
                    pushLog, now, restarts >>

\* LoadApply taking every measurement it restores for not yet synced
LoadApply_MarksUnsynced ==
    /\ storageQueue # << >>
    /\ LET t == Head(storageQueue) IN
       /\ t.kind = "load" /\ t.pc = "getCredits"
       /\ projects' = IF t.storedProjects # NoItem
                      THEN Parse(t.storedProjects) ELSE projects
       /\ mrvData' = IF t.storedMrvData # NoItem
                     THEN [i \in 1..Len(Parse(t.storedMrvData)) |->
                              [Parse(t.storedMrvData)[i] EXCEPT !.synced = FALSE]]
                     ELSE mrvData
       /\ credits' = IF disk["credits"] # NoItem THEN Parse(disk["credits"]) ELSE credits
       /\ refreshing' = IF t.refresh THEN FALSE ELSE refreshing
    /\ storageQueue' = Tail(storageQueue)
    /\ alert' = NoAlert
    /\ UNCHANGED << mounted, isConnected, isLoading, mrvProjectId, disk, timers,
                    pushLog, now, restarts >>

\* AsyncStorage.getItem('credits') is served and lines 106-108 replace, in
\* this order, every collection that has a stored item; a JSON.parse that
\* throws ends the try block (line 109), so the collections after it keep
\* what they hold; a refresh then clears refreshing (line 319)
LoadApply ==
    /\ storageQueue # << >>
    /\ LET t == Head(storageQueue)
           storedCredits == disk["credits"]
           reached107 == t.storedProjects # Corrupt
           reached108 == reached107 /\ t.storedMrvData # Corrupt
       IN
       /\ t.kind = "load" /\ t.pc = "getCredits"
       /\ projects' = IF Parses(t.storedProjects)
                      THEN Parse(t.storedProjects) ELSE projects
       /\ mrvData' = IF reached107 /\ Parses(t.storedMrvData)
                     THEN Parse(t.storedMrvData) ELSE mrvData
       /\ credits' = IF reached108 /\ Parses(storedCredits)
                     THEN Parse(storedCredits) ELSE credits
       /\ refreshing' = IF t.refresh THEN FALSE ELSE refreshing
    /\ storageQueue' = Tail(storageQueue)
    /\ alert' = NoAlert
    /\ UNCHANGED << mounted, isConnected, isLoading, mrvProjectId, disk, timers,
                    pushLog, now, restarts >>

\* the text stored under a key is damaged outside the application
CorruptItem(key) ==
    /\ disk[key] \notin {NoItem, Corrupt}
    /\ disk' = [disk EXCEPT ![key] = Corrupt]
    /\ alert' = NoAlert
    /\ UNCHANGED << mounted, isConnected, isLoading, refreshing, projects, mrvData,
                    credits, mrvProjectId, storageQueue, timers, pushLog, now,
                    restarts >>

\* the unawaited saveLocalData of line 156 is served
SampleSave(ok) ==
    /\ storageQueue # << >>
    /\ Head(storageQueue).kind = "save"
    /\ disk' = saveLocalData(Head(storageQueue).key, Head(storageQueue).data, ok)
    /\ storageQueue' = Tail(storageQueue)
    /\ alert' = NoAlert
    /\ UNCHANGED << mounted, isConnected, isLoading, refreshing, projects, mrvData,
                    credits, mrvProjectId, timers, pushLog, now, restarts >>

----------------------------------------------------------------------------
(* submitProject, lines 219-262 *)

\* SubmitFinish without the setIsLoading(false) of lines 260 and 300
SubmitFinish_StaysLoading(t, msg, writeFailed) ==
    /\ alert' = [title |-> "Success", msg |-> msg, rec |-> t.rec,
                 writeFailed |-> writeFailed]
    /\ isLoading' = isLoading

\* what lines 248-261 and 288-301 do when a submission ends: the success
\* alert and isLoading back to false; writeFailed tells whether the
\* submission's saveLocalData had logged an error (line 119)
SubmitFinish(t, msg, writeFailed) ==
    /\ alert' = [title |-> "Success", msg |-> msg, rec |-> t.rec,
                 writeFailed |-> writeFailed]
    /\ isLoading' = FALSE

\* the submit button of the register form is pressed (disabled while isLoading,
\* line 539) with `form` typed in: lines 220-241 up to the await
SubmitProject(form) ==
    /\ mounted
    /\ ~isLoading
    /\ IF projectFormRejected(form)
       THEN /\ alert' = [title |-> "Error", msg |-> "Please fill all required fields"]
            /\ UNCHANGED << isLoading, projects, storageQueue, now >>
       ELSE /\ InFlight < MaxTasks
            /\ now < MaxClock
            /\ now' = now + 1
            /\ isLoading' = TRUE
            /\ LET rec == newProject(form, projects, now)
                   updatedProjects == Append(projects, rec)
               IN /\ projects' = updatedProjects
                  /\ storageQueue' = Append(storageQueue,
                        [kind |-> "submitProject", rec |-> rec,
                         data |-> updatedProjects, conn |-> isConnected])
            /\ alert' = NoAlert
    /\ UNCHANGED << mounted, isConnected, refreshing, mrvData, credits,
                    mrvProjectId, disk, timers, pushLog, restarts >>

\* the awaited saveLocalData of line 241 is served and submitProject resumes:
\* with the isConnected of the render it was started in it calls
\* syncWithServer (lines 244-245), otherwise it ends (lines 248-261)
SubmitProjectSave(ok) ==
    /\ storageQueue # << >>
    /\ LET t == Head(storageQueue) IN
       /\ t.kind = "submitProject"
       /\ disk' = saveLocalData("projects", t.data, ok)
       /\ IF t.conn
          THEN /\ timers' = Append(timers,
                      [kind |-> "submitProject", rec |-> t.rec, data |-> t.data,
                       conn |-> t.conn, writeFailed |-> ~ok])
               /\ alert' = NoAlert
               /\ UNCHANGED isLoading
          ELSE /\ SubmitFinish(t, "Project registered successfully", ~ok)
               /\ UNCHANGED timers
    /\ storageQueue' = Tail(storageQueue)
    /\ UNCHANGED << mounted, isConnected, refreshing, projects, mrvData, credits,
                    mrvProjectId, pushLog, now, restarts >>

\* the timer of syncWithServer (lines 305-313) fires and submitProject ends
SubmitProjectPushed(i) ==
    /\ timers[i].kind = "submitProject"
    /\ pushLog' = pushLog \cup {[type |-> "project", data |-> timers[i].rec]}
    /\ SubmitFinish(timers[i], "Project registered successfully", timers[i].writeFailed)
    /\ timers' = RemoveAt(timers, i)
    /\ UNCHANGED << mounted, isConnected, refreshing, projects, mrvData, credits,
                    mrvProjectId, disk, storageQueue, now, restarts >>

----------------------------------------------------------------------------
(* submitMRVData, lines 265-302 *)

\* the entries of the project picker the user chooses among: the latest one
PickerChoices == IF projects = << >> THEN {} ELSE {Len(projects)}

\* a project is picked in the MRV form, lines 563-572
SelectProject(i) ==
    /\ mounted
    /\ i \in 1..Len(projects)
    /\ mrvProjectId' = IdToString(projects[i].id)
    /\ alert' = NoAlert
    /\ UNCHANGED << mounted, isConnected, isLoading, refreshing, projects, mrvData,
                    credits, disk, storageQueue, timers, pushLog, now, restarts >>

\* the submit button of the MRV form is pressed (disabled while isLoading,
\* line 695) with `fields` typed in: lines 266-282 up to the await
SubmitMRVData(fields) ==
    /\ mounted
    /\ ~isLoading
    /\ IF mrvFormRejected(mrvProjectId)
       THEN /\ alert' = [title |-> "Error", msg |-> "Please select a project"]
            /\ UNCHANGED << isLoading, mrvData, storageQueue, now >>
       ELSE /\ InFlight < MaxTasks
            /\ now < MaxClock
            /\ now' = now + 1
            /\ isLoading' = TRUE
            /\ LET rec == newMrvData(mrvProjectId, fields, mrvData, isConnected, now)
                   updatedMrvData == Append(mrvData, rec)
               IN /\ mrvData' = updatedMrvData
                  /\ storageQueue' = Append(storageQueue,
                        [kind |-> "submitMRVData", rec |-> rec,
                         data |-> updatedMrvData, conn |-> isConnected])
            /\ alert' = NoAlert
    /\ UNCHANGED << mounted, isConnected, refreshing, projects, credits,
                    mrvProjectId, disk, timers, pushLog, restarts >>

\* the awaited saveLocalData of line 282 is served and submitMRVData resumes
\* (lines 284-301)
SubmitMRVSave(ok) ==
    /\ storageQueue # << >>
    /\ LET t == Head(storageQueue) IN
       /\ t.kind = "submitMRVData"
       /\ disk' = saveLocalData("mrvData", t.data, ok)
       /\ IF t.conn
          THEN /\ timers' = Append(timers,
                      [kind |-> "submitMRVData", rec |-> t.rec, data |-> t.data,
                       conn |-> t.conn, writeFailed |-> ~ok])
               /\ alert' = NoAlert
               /\ UNCHANGED << isLoading, mrvProjectId >>
          ELSE /\ SubmitFinish(t, "MRV data submitted successfully", ~ok)
               /\ mrvProjectId' = ""
               /\ UNCHANGED timers
    /\ storageQueue' = Tail(storageQueue)
    /\ UNCHANGED << mounted, isConnected, refreshing, projects, mrvData, credits,
                    pushLog, now, restarts >>

\* the timer of syncWithServer fires and submitMRVData ends (lines 285-301)
SubmitMRVPushed(i) ==
    /\ timers[i].kind = "submitMRVData"
    /\ pushLog' = pushLog \cup {[type |-> "mrv", data |-> timers[i].rec]}
    /\ SubmitFinish(timers[i], "MRV data submitted successfully", timers[i].writeFailed)
    /\ mrvProjectId' = ""
    /\ timers' = RemoveAt(timers, i)
    /\ UNCHANGED << mounted, isConnected, refreshing, projects, mrvData, credits,
                    disk, storageQueue, now, restarts >>

----------------------------------------------------------------------------
(* Manual sync, lines 790-801, and getCurrentLocation, lines 160-177 *)

\* ManualSync without the test of isConnected (line 792)
ManualSync_IgnoresConnection ==
    /\ mounted
    /\ InFlight < MaxTasks
    /\ isLoading' = TRUE
    /\ timers' = Append(timers, [kind |-> "manualSync", started |-> now])
    /\ alert' = NoAlert
    /\ UNCHANGED << mounted, isConnected, refreshing, projects, mrvData, credits,
                    mrvProjectId, disk, storageQueue, pushLog, now, restarts >>

\* the Manual Sync button is pressed (line 792 and the timer of line 795);
\* started is the clock when it was pressed
ManualSync ==
    /\ mounted
    /\ IF isConnected
       THEN /\ InFlight < MaxTasks
            /\ isLoading' = TRUE
            /\ timers' = Append(timers, [kind |-> "manualSync", started |-> now])
            /\ alert' = NoAlert
       ELSE /\ alert' = [title |-> "No Connection",
                         msg |-> "Please check your internet connection"]
            /\ UNCHANGED << isLoading, timers >>
    /\ UNCHANGED << mounted, isConnected, refreshing, projects, mrvData, credits,
                    mrvProjectId, disk, storageQueue, pushLog, now, restarts >>

\* the two-second timer of line 795 fires: lines 796-797
ManualSyncDone(i) ==
    /\ timers[i].kind = "manualSync"
    /\ isLoading' = FALSE
    /\ alert' = [title |-> "Success", msg |-> "All data synced successfully"]
    /\ timers' = RemoveAt(timers, i)
    /\ UNCHANGED << mounted, isConnected, refreshing, projects, mrvData, credits,
                    mrvProjectId, disk, storageQueue, pushLog, now, restarts >>

\* the location button is pressed, lines 161-162
GetCurrentLocation ==
    /\ mounted
    /\ InFlight < MaxTasks
    /\ isLoading' = TRUE
    /\ timers' = Append(timers, [kind |-> "location"])
    /\ alert' = NoAlert
    /\ UNCHANGED << mounted, isConnected, refreshing, projects, mrvData, credits,
                    mrvProjectId, disk, storageQueue, pushLog, now, restarts >>

\* Geolocation answers with a position (lines 163-170) or an error (171-174)
LocationDone(i, ok) ==
    /\ timers[i].kind = "location"
    /\ isLoading' = FALSE
    /\ alert' = [title |-> IF ok THEN "Location Captured" ELSE "Location Error"]
    /\ timers' = RemoveAt(timers, i)
    /\ UNCHANGED << mounted, isConnected, refreshing, projects, mrvData, credits,
                    mrvProjectId, disk, storageQueue, pushLog, now, restarts >>

----------------------------------------------------------------------------
(* renderDashboard, lines 375-403 *)

\* Number.prototype.toFixed(0) of a number kept in hundredths: the nearest
\* whole number, the one further from zero when two are equally near
toFixed0(h) == IF h >= 0 THEN (h + 50) \div 100 ELSE 0 - ((50 - h) \div 100)

\* ps.reduce((sum, p) => sum + p[field], 0) from the i-th record on, with the
\* sum reached so far
RECURSIVE reduceFrom(_, _, _, _)
reduceFrom(ps, field, i, sum) ==
    IF i > Len(ps) THEN sum ELSE reduceFrom(ps, field, i + 1, sum + ps[i][field])

\* renderDashboard showing the number of projects on the MRV Records card
renderDashboard_ProjectsOnMrvCard ==
    [totalProjects |-> Len(projects),
     creditsIssued |-> toFixed0(reduceFrom(projects, "creditsIssued", 1, 0)),
     carbonSequestered |-> toFixed0(reduceFrom(projects, "carbonSequestered", 1, 0)),
     mrvRecords |-> Len(projects)]

\* the four numbers of the stats grid, lines 383-402
renderDashboard ==
    [totalProjects |-> Len(projects),
     creditsIssued |-> toFixed0(reduceFrom(projects, "creditsIssued", 1, 0)),
     carbonSequestered |-> toFixed0(reduceFrom(projects, "carbonSequestered", 1, 0)),
     mrvRecords |-> Len(mrvData)]

\* seq.filter(r => r.synced !== false).length, lines 781 and 785: a record
\* without the property counts
syncedCount(seq) ==
    Cardinality({i \in 1..Len(seq) : ~Has(seq[i], "synced") \/ seq[i].synced # FALSE})

\* the two numbers of the sync statistics, lines 779-788
syncStats == [projectsSynced |-> syncedCount(projects),
              mrvSynced |-> syncedCount(mrvData)]

----------------------------------------------------------------------------
(* The application *)

Next ==
    \/ Mount
    \/ Restart
    \/ \E b \in BOOLEAN : NetChange(b)
    \/ Refresh
    \/ LoadGetProjects
    \/ LoadGetMrvData
    \/ LoadApply
    \/ \E ok \in BOOLEAN : SampleSave(ok)
    \/ \E form \in ProjectForms : SubmitProject(form)
    \/ \E ok \in BOOLEAN : SubmitProjectSave(ok)
    \/ \E i \in 1..Len(timers) : SubmitProjectPushed(i)
    \/ \E i \in PickerChoices : SelectProject(i)
    \/ \E fields \in MrvFields : SubmitMRVData(fields)
    \/ \E ok \in BOOLEAN : SubmitMRVSave(ok)
    \/ \E i \in 1..Len(timers) : SubmitMRVPushed(i)
    \/ ManualSync
    \/ \E i \in 1..Len(timers) : ManualSyncDone(i)

\* the application with the location button of the register form
NextWithLocation ==
    \/ Next
    \/ GetCurrentLocation
    \/ \E i \in 1..Len(timers), ok \in BOOLEAN : LocationDone(i, ok)

\* the start-up, the connectivity listener, pull-to-refresh and the register
\* form with every area text typed in
NextAreas ==
    \/ Mount
    \/ \E b \in BOOLEAN : NetChange(b)
    \/ Refresh
    \/ LoadGetProjects
    \/ LoadGetMrvData
    \/ LoadApply
    \/ \E ok \in BOOLEAN : SampleSave(ok)
    \/ \E form \in ProjectForms \cup AreaForms : SubmitProject(form)
    \/ \E ok \in BOOLEAN : SubmitProjectSave(ok)
    \/ \E i \in 1..Len(timers) : SubmitProjectPushed(i)

\* start-up, restart, pull-to-refresh and the MRV form over a durable store
\* whose items can be damaged
NextCorrupt ==
    \/ Mount
    \/ Restart
    \/ Refresh
    \/ LoadGetProjects
    \/ LoadGetMrvData
    \/ LoadApply
    \/ \E ok \in BOOLEAN : SampleSave(ok)
    \/ \E i \in PickerChoices : SelectProject(i)
    \/ \E fields \in MrvFields : SubmitMRVData(fields)
    \/ \E ok \in BOOLEAN : SubmitMRVSave(ok)
    \/ \E i \in 1..Len(timers) : SubmitMRVPushed(i)
    \/ \E key \in StorageKeys : CorruptItem(key)

\* start-up, restart, the connectivity listener and the register form over a
\* durable store that accepts every write
NextStartup ==
    \/ Mount
    \/ Restart
    \/ \E b \in BOOLEAN : NetChange(b)
    \/ LoadGetProjects
    \/ LoadGetMrvData
    \/ LoadApply
    \/ SampleSave(TRUE)
    \/ \E form \in ProjectForms : SubmitProject(form)
    \/ SubmitProjectSave(TRUE)
    \/ \E i \in 1..Len(timers) : SubmitProjectPushed(i)

Spec == Init /\ [][Next]_vars

SpecWithLocation == Init /\ [][NextWithLocation]_vars

SpecAreas == Init /\ [][NextAreas]_vars

SpecCorrupt == Init /\ [][NextCorrupt]_vars

SpecStartup == Init /\ [][NextStartup]_vars

\* the oldest timer or native callback fires
OldestTimerFires ==
    /\ timers # << >>
    /\ (SubmitProjectPushed(1) \/ SubmitMRVPushed(1) \/ ManualSyncDone(1))

\* AsyncStorage answers the request at the head of its queue
StorageAnswers ==
    \/ LoadGetProjects
    \/ LoadGetMrvData
    \/ LoadApply
    \/ \E ok \in BOOLEAN : SampleSave(ok)
    \/ \E ok \in BOOLEAN : SubmitProjectSave(ok)
    \/ \E ok \in BOOLEAN : SubmitMRVSave(ok)

\* the application while its process is not stopped
NextRunning ==
    \/ Mount
    \/ \E b \in BOOLEAN : NetChange(b)
    \/ Refresh
    \/ StorageAnswers
    \/ \E form \in ProjectForms : SubmitProject(form)
    \/ \E i \in 1..Len(timers) : SubmitProjectPushed(i)
    \/ \E i \in PickerChoices : SelectProject(i)
    \/ \E fields \in MrvFields : SubmitMRVData(fields)
    \/ \E i \in 1..Len(timers) : SubmitMRVPushed(i)
    \/ ManualSync
    \/ \E i \in 1..Len(timers) : ManualSyncDone(i)

\* the running application on a device where AsyncStorage answers every
\* request and every timer fires (lines 117, 102-104, 308, 795)
FairSpec ==
    Init /\ [][NextRunning]_vars /\ WF_vars(StorageAnswers) /\ WF_vars(OldestTimerFires)

----------------------------------------------------------------------------
(* Vocabulary of the properties *)

Range(seq) == {seq[i] : i \in 1..Len(seq)}

\* the records AsyncStorage holds under a key
DiskRecords(key) == IF disk[key] = NoItem THEN {} ELSE Range(Parse(disk[key]))

\* a record made by submitProject or submitMRVData (sample records carry no date)
IsSubmitted(r) == Has(r, "registrationDate") \/ Has(r, "timestamp")

IsSubmission(t) == t.kind \in {"submitProject", "submitMRVData"}

\* every copy of a record the store holds, in memory or durably
StoredCopies(rec) ==
    {r \in Range(projects) \cup Range(mrvData)
           \cup DiskRecords("projects") \cup DiskRecords("mrvData") :
        r = rec \/ r = StringifyRecord(rec)}

\* the identifiers of a collection are pairwise different
UniqueIds(seq) == \A i, j \in 1..Len(seq) : seq[i].id = seq[j].id => i = j

\* r and q are the same record at two moments: the same sample project, or
\* made by the same submission
SameProject(r, q) ==
    IF Has(r, "registrationDate")
    THEN Has(q, "registrationDate") /\ q.registrationDate = r.registrationDate
    ELSE ~Has(q, "registrationDate") /\ q.name = r.name

SameMrv(r, q) == q.timestamp = r.timestamp

\* the text in the MRV form names a project of the projects collection
Resolves(projectId) ==
    \E j \in 1..Len(projects) : IdToString(projects[j].id) = projectId

----------------------------------------------------------------------------
(* Properties *)

\* C1: a record a submission has persisted stays in its durable collection
\* through every later step, restarts included.
C1_PersistedRecordsStay ==
    [][\A k \in {"projects", "mrvData"} :
          \A r \in DiskRecords(k) : IsSubmitted(r) => r \in DiskRecords(k)']_vars

\* C2: every record a submission creates while disconnected carries
\* synced = false, in memory and on disk (not true, not absent).
C2_OfflineRecordsUnsynced ==
    \A t \in Range(storageQueue) :
        (IsSubmission(t) /\ ~t.conn) =>
            \A r \in StoredCopies(t.rec) : Has(r, "synced") /\ r.synced = FALSE

\* C3: a record is marked synced, in memory or on disk, only when its push
\* has completed.
C3_SyncedOnlyAfterPush ==
    \A r \in Range(projects) \cup Range(mrvData)
             \cup DiskRecords("projects") \cup DiskRecords("mrvData") :
        (Has(r, "synced") /\ r.synced = TRUE) =>
            \E e \in pushLog : StringifyRecord(e.data) = StringifyRecord(r)

\* C4: when a manual sync completes while connected, every record that was
\* pending when it was started is synced, in memory and on disk.
C4_ManualSyncSyncsPending ==
    [][\A i \in 1..Len(timers) :
          (ManualSyncDone(i) /\ isConnected) =>
              \A r \in Range(mrvData') \cup DiskRecords("mrvData")' :
                  r.timestamp < timers[i].started => r.synced = TRUE]_vars

\* C5: a manual sync requested while disconnected raises the No Connection
\* alert, starts no push and no task, and leaves every collection, in memory
\* and durable, as it was.
C5_OfflineManualSyncRefused ==
    [][(ManualSync /\ ~isConnected) =>
          /\ alert'.title = "No Connection"
          /\ UNCHANGED << projects, mrvData, credits, disk, pushLog, storageQueue,
                          timers, isLoading >>]_vars

\* C5 witness: the No Connection alert is up while a record is pending
C5_Witness ==
    /\ alert.title = "No Connection"
    /\ \E r \in Range(mrvData) : r.synced = FALSE

\* C6: when the durable write of a submission fails, the new record is taken
\* out of the in-memory collection again.
C6_FailedWriteRolledBack ==
    [][/\ SubmitProjectSave(FALSE) => Head(storageQueue).rec \notin Range(projects')
       /\ SubmitMRVSave(FALSE) => Head(storageQueue).rec \notin Range(mrvData')]_vars

\* C7: a submission whose durable write failed never reports success.
C7_FailedWriteReported ==
    ~(alert.title = "Success" /\ Has(alert, "writeFailed") /\ alert.writeFailed)

C9_IdsUniqueAndStable ==
    /\ [](/\ UniqueIds(projects) /\ UniqueIds(mrvData)
          /\ \A k \in {"projects", "mrvData"} :
                disk[k] # NoItem => UniqueIds(Parse(disk[k])))
    /\ [][/\ \A r \in Range(projects) \cup DiskRecords("projects") :
               \A q \in Range(projects') \cup DiskRecords("projects")' :
                   SameProject(r, q) => q.id = r.id
          /\ \A r \in Range(mrvData) \cup DiskRecords("mrvData") :
               \A q \in Range(mrvData') \cup DiskRecords("mrvData")' :
                   SameMrv(r, q) => q.id = r.id]_vars

\* C9 witness: after a restart, loaded and submitted records share a collection
C9_Witness ==
    /\ restarts = 1
    /\ Len(projects) = 3
    /\ Len(mrvData) = 1

\* C10: an MRV submission whose projectId is empty or names no project of
\* the projects collection raises the Error alert and leaves mrvData as it was.
C10_UnresolvedProjectRejected ==
    [][\A fields \in MrvFields :
          (SubmitMRVData(fields) /\ ~Resolves(mrvProjectId)) =>
              (alert'.title = "Error" /\ mrvData' = mrvData)]_vars

\* a required field of the project form is left empty
MissingRequired(form) == form.name = "" \/ form.area = "" \/ form.proponent = ""

\* C11: a project submission with name, area or proponent left empty raises
\* the Error alert, leaves projects as it was in memory and in the durable
\* store, and starts no write and no push.
C11_IncompleteProjectRejected ==
    [][\A form \in ProjectForms :
          (SubmitProject(form) /\ MissingRequired(form)) =>
              /\ alert'.title = "Error"
              /\ UNCHANGED << projects, disk, pushLog, storageQueue, timers >>]_vars

\* C11 witness: the Error alert of the register form is up while a submitted
\* project is in the collection
C11_Witness ==
    /\ alert.title = "Error"
    /\ alert.msg = "Please fill all required fields"
    /\ Len(projects) = 3

\* the text of the area field reads as a number above zero
AreaPositive(text) == parseFloat(text) # NaN /\ parseFloat(text).v > 0

\* C12: a project submission whose area is zero, negative or no number raises
\* the Error alert and adds no project.
C12_NonPositiveAreaRejected ==
    [][\A form \in ProjectForms \cup AreaForms :
          (SubmitProject(form) /\ ~AreaPositive(form.area)) =>
              (alert'.title = "Error" /\ projects' = projects)]_vars

\* what loadLocalData reads back after saveLocalData has written data
SavedThenLoaded(data) == Parse(Item(Stringify(data)))

\* C13: every collection the store holds in memory, saved with saveLocalData
\* and read back with loadLocalData, comes back as the same sequence of
\* records with the same field values.
C13_SaveLoadRoundTrip ==
    /\ SavedThenLoaded(projects) = projects
    /\ SavedThenLoaded(mrvData) = mrvData
    /\ SavedThenLoaded(credits) = credits

\* what the claim expects a load to leave in a collection whose stored item
\* is `item`, and whether the collection holds it
RestoredFrom(item, collection) ==
    IF Parses(item) THEN collection = Parse(item) ELSE collection = << >>

\* C14: after a load, a collection whose stored data is missing or corrupt is
\* empty, and every collection whose stored data is valid holds that data,
\* whatever the stored data of the other collections is.
C14_LoadIsolatesCorruption ==
    [][LoadApply =>
          /\ RestoredFrom(Head(storageQueue).storedProjects, projects')
          /\ RestoredFrom(Head(storageQueue).storedMrvData, mrvData')
          /\ RestoredFrom(disk["credits"], credits')]_vars

\* C15: over every step (submissions, manual syncs, loads, restarts and
\* connectivity changes) a record whose synced flag is true keeps it true, in
\* memory and on disk, so the flag of a record changes at most once, from
\* false to true.
C15_SyncedNeverReverts ==
    [][\A r \in Range(mrvData) \cup DiskRecords("mrvData") :
          \A q \in Range(mrvData') \cup DiskRecords("mrvData")' :
              (SameMrv(r, q) /\ q.synced # r.synced) =>
                  (r.synced = FALSE /\ q.synced = TRUE)]_vars

\* C15 witness: the device is offline and holds, in memory and on disk, a
\* record created as synced next to a pending one
C15_Witness ==
    /\ ~isConnected
    /\ \E r \in Range(mrvData) \cap DiskRecords("mrvData") : r.synced = TRUE
    /\ \E q \in Range(mrvData) : q.synced = FALSE

\* the alert a completed manual sync raises (line 797)
ManualSyncSuccess == [title |-> "Success", msg |-> "All data synced successfully"]

\* C16: a manual sync requested while connected right after another one has
\* completed finds every record synced, and neither its start nor its
\* completion changes a collection, in memory or on disk.
C16_ManualSyncIdempotent ==
    [][/\ (ManualSync \/ \E i \in 1..Len(timers) : ManualSyncDone(i)) =>
              UNCHANGED << projects, mrvData, credits, disk >>
       /\ (ManualSync /\ isConnected /\ alert = ManualSyncSuccess) =>
              \A r \in Range(mrvData) \cup DiskRecords("mrvData") :
                  r.synced = TRUE]_vars

\* the handler t, waiting for AsyncStorage, is between its read of the
\* collection `key` and the end of its write or in-memory replacement of it:
\* a load that has read the stored item and has not yet set the collection,
\* a submission or loadSampleData that has set the collection and is not yet
\* persisted
InSequenceOn(t, key) ==
    CASE t.kind = "load" ->
             \/ key = "projects" /\ Has(t, "storedProjects")
             \/ key = "mrvData" /\ Has(t, "storedMrvData")
      [] t.kind = "save" -> key = t.key
      [] t.kind = "submitProject" -> key = "projects"
      [] t.kind = "submitMRVData" -> key = "mrvData"
      [] OTHER -> FALSE

\* C17: at no time are two store-mutating operations (submitProject,
\* submitMRVData, loadLocalData, loadSampleData) both inside their
\* read-modify-persist sequence on the same collection.
C17_NoOverlappingMutations ==
    \A i, j \in 1..Len(storageQueue) :
        i # j => \A key \in StorageKeys :
            ~(InSequenceOn(storageQueue[i], key) /\ InSequenceOn(storageQueue[j], key))

\* C18: a step in which the listener reports reachability, or in which the
\* connectivity state of the running application changes in either
\* direction, starts no task and no push and leaves every collection, in
\* memory and on disk, synced flags included, as it was.
C18_ConnectivityChangesNothingElse ==
    [][(mounted' /\ (isConnected' # isConnected \/ \E b \in BOOLEAN : NetChange(b))) =>
          UNCHANGED << projects, mrvData, credits, disk, pushLog, storageQueue,
                       timers >>]_vars

\* C18 witness: the network is back while a measurement taken offline is
\* still pending, in memory and on disk
C18_Witness ==
    /\ isConnected
    /\ restarts = 0
    /\ \E r \in Range(mrvData) \cap DiskRecords("mrvData") : r.synced = FALSE

\* C19: the connectivity state is connected until the listener reports for
\* the first time, every report sets it to the reported value, and no other
\* step of the running application changes it; so it always equals the
\* latest reported value.
C19_ConnectivityIsLatestReport ==
    /\ [](~mounted => isConnected = TRUE)
    /\ [][\A b \in BOOLEAN : NetChange(b) => isConnected' = b]_vars
    /\ [][(mounted' /\ ~(\E b \in BOOLEAN : NetChange(b))) =>
              isConnected' = isConnected]_vars

\* C19 witness: reports of offline, online and offline again have arrived: a
\* pending measurement is older than a synced one and the state is offline
C19_Witness ==
    /\ ~isConnected
    /\ restarts = 0
    /\ \E q, r \in Range(mrvData) :
          q.synced = FALSE /\ r.synced = TRUE /\ q.timestamp < r.timestamp

\* C20: in every state every project of the projects collection, in memory
\* and on disk, has creditsIssued <= carbonSequestered.
C20_CreditsWithinSequestered ==
    \A p \in Range(projects) \cup DiskRecords("projects") :
        p.creditsIssued <= p.carbonSequestered

\* C20 witness: the collection holds a sample project with credits issued, a
\* submitted project read back from the store and a newly submitted one
C20_Witness ==
    /\ \E p \in Range(projects) : p.status = "active" /\ p.creditsIssued > 0
    /\ \E p \in Range(projects) : p.status = "pending" /\ p.duration = JsNull
    /\ \E p \in Range(projects) : p.status = "pending" /\ p.duration = NaN

\* the measurement fields of mrvForm that hold a number (lines 59-64)
NumericMrvFields ==
    {"soilCarbon", "ndviValue", "canopyHeight", "dbh", "treeHeight", "survivalRate"}

\* C21: in the record an MRV submission stores, a numeric measurement field
\* left blank is absent, and one given as numeric text holds the number the
\* text denotes.
C21_MeasurementsParsed ==
    [][\A fields \in MrvFields :
          (SubmitMRVData(fields) /\ ~mrvFormRejected(mrvProjectId)) =>
              LET r == mrvData'[Len(mrvData')] IN
              /\ \A f \in NumericMrvFields : fields[f] = "" => ~Has(r, f)
              /\ \A f \in NumericMrvFields :
                    fields[f] # "" => r[f] = parseFloat(fields[f])]_vars

\* the sum of a field over the first n records of a collection, in hundredths
RECURSIVE SumOver(_, _, _)
SumOver(seq, field, n) ==
    IF n = 0 THEN 0 ELSE SumOver(seq, field, n - 1) + seq[n][field]

\* the whole number w is the number of hundredths h rounded to the nearest
\* whole number
RoundedFrom(w, h) == 100 * w - h <= 50 /\ h - 100 * w <= 50

\* C22 as stated: the dashboard shows the number of projects, the number of
\* MRV records, and as totals exactly the sums of creditsIssued and of
\* carbonSequestered over all projects.
C22_DashboardTotalsExact ==
    /\ renderDashboard.totalProjects = Cardinality(DOMAIN projects)
    /\ renderDashboard.mrvRecords = Cardinality(DOMAIN mrvData)
    /\ 100 * renderDashboard.creditsIssued
          = SumOver(projects, "creditsIssued", Len(projects))
    /\ 100 * renderDashboard.carbonSequestered
          = SumOver(projects, "carbonSequestered", Len(projects))

\* C22 amended: the dashboard shows the number of projects, the number of
\* MRV records, and as totals the sums of creditsIssued and of
\* carbonSequestered over all projects rounded to the nearest whole number.
C22_DashboardTotalsRounded ==
    /\ renderDashboard.totalProjects = Cardinality(DOMAIN projects)
    /\ renderDashboard.mrvRecords = Cardinality(DOMAIN mrvData)
    /\ RoundedFrom(renderDashboard.creditsIssued,
                   SumOver(projects, "creditsIssued", Len(projects)))
    /\ RoundedFrom(renderDashboard.carbonSequestered,
                   SumOver(projects, "carbonSequestered", Len(projects)))

\* C22 witness: the dashboard is drawn over sample and submitted projects
\* whose credits do not add up to a whole number, and an MRV record
C22_Witness ==
    /\ Len(projects) = 3
    /\ Len(mrvData) = 1
    /\ SumOver(projects, "creditsIssued", Len(projects)) % 100 # 0

\* a handler started by the mount effect (loadLocalData, or the saveLocalData
\* of loadSampleData) is still waiting in the queue q
StartupPending(q) ==
    \E t \in Range(q) : t.kind = "save" \/ (t.kind = "load" /\ ~t.refresh)

\* C23: when the last handler of the mount effect finishes, with no
\* submission waiting for its write and a 'projects' item in the store, the
\* projects in memory are the stored projects.
C23_StartupMemoryMatchesStore ==
    [][(/\ StartupPending(storageQueue)
        /\ ~StartupPending(storageQueue')
        /\ mounted'
        /\ \A t \in Range(storageQueue') : ~IsSubmission(t)
        /\ disk'["projects"] # NoItem) =>
            Stringify(projects') = Parse(disk'["projects"])]_vars

\* the collection in memory that is stored under a key
InMemory(key) == IF key = "projects" THEN projects ELSE mrvData

\* no refresh and no submission is between its start and its completion
NothingInFlight ==
    mounted /\ storageQueue = << >> /\ timers = << >> /\ ~refreshing /\ ~isLoading

\* C24: in the first run of the application, where every load after start-up
\* is a refresh, once refreshes and submissions have all completed every
\* submitted record the store holds is also in memory; and the write of a
\* later submission keeps every submitted record the store holds.
C24_RefreshKeepsSubmission ==
    /\ []((NothingInFlight /\ restarts = 0) =>
             \A key \in {"projects", "mrvData"} :
                 \A r \in DiskRecords(key) :
                     IsSubmitted(r) => r \in Range(Stringify(InMemory(key))))
    /\ [][\A ok \in BOOLEAN :
             /\ SubmitProjectSave(ok) =>
                   \A r \in DiskRecords("projects") :
                       IsSubmitted(r) => r \in DiskRecords("projects")'
             /\ SubmitMRVSave(ok) =>
                   \A r \in DiskRecords("mrvData") :
                       r \in DiskRecords("mrvData")']_vars

\* C25: a submission starts the push of its record (syncWithServer, lines
\* 244-245 and 285-286) only in a state in which the connectivity state is
\* connected, and a measurement created while disconnected is never pushed
\* by its submission.
C25_PushOnlyWhileConnected ==
    [][/\ \A ok \in BOOLEAN :
             ((SubmitProjectSave(ok) \/ SubmitMRVSave(ok)) /\ Len(timers') > Len(timers)) =>
                 isConnected
       /\ \A i \in 1..Len(timers) :
             SubmitMRVPushed(i) => timers[i].rec.synced = TRUE]_vars

\* C26: when a submission starts the push of its record, the durable
\* collection holds that record.
C26_PushOnlyAfterPersist ==
    [][\A ok \in BOOLEAN :
          /\ (SubmitProjectSave(ok) /\ Len(timers') > Len(timers)) =>
                StringifyRecord(Head(storageQueue).rec) \in DiskRecords("projects")'
          /\ (SubmitMRVSave(ok) /\ Len(timers') > Len(timers)) =>
                StringifyRecord(Head(storageQueue).rec) \in DiskRecords("mrvData")']_vars

\* the stored item holds a collection whose last record is rec as written
EndsWith(item, rec) ==
    /\ Parses(item)
    /\ Parse(item) # << >>
    /\ Parse(item)[Len(Parse(item))] = StringifyRecord(rec)

Pushed(rec) == \E e \in pushLog : StringifyRecord(e.data) = StringifyRecord(rec)

\* the number of records of a collection whose push has completed
PushedCount(seq) == Cardinality({i \in 1..Len(seq) : Pushed(seq[i])})

\* C28: 'Projects Synced' and 'MRV Data Synced' are the numbers of records
\* of projects and of mrvData whose push has completed.
C28_SyncedCountsArePushed ==
    /\ syncStats.projectsSynced = PushedCount(projects)
    /\ syncStats.mrvSynced = PushedCount(mrvData)

\* C29: isLoading is true in every state in which a submission or a manual
\* sync is between its start and its completion, location captures included.
C29_BusyWhileInFlight ==
    (\E t \in Range(storageQueue) \cup Range(timers) :
        IsSubmission(t) \/ t.kind = "manualSync") => isLoading

\* the submission that read the clock at c is between its start and its
\* completion
SubmissionInFlight(c) ==
    \E t \in Range(storageQueue) \cup Range(timers) :
        /\ IsSubmission(t)
        /\ (IF t.kind = "submitProject" THEN t.rec.registrationDate
                                        ELSE t.rec.timestamp) = c

ManualSyncInFlight == \E t \in Range(timers) : t.kind = "manualSync"

\* the step ends a submission or a manual sync
Completes ==
    \/ \E ok \in BOOLEAN :
          (SubmitProjectSave(ok) \/ SubmitMRVSave(ok)) /\ ~Head(storageQueue).conn
    \/ \E i \in 1..Len(timers) :
          SubmitProjectPushed(i) \/ SubmitMRVPushed(i) \/ ManualSyncDone(i)

\* C30: every submission in flight comes to its end, every manual sync in
\* flight is followed by the completion of a manual sync, isLoading never
\* stays true for ever, every step that ends a
\* submission or a manual sync leaves isLoading false, whether the write
\* failed or not and connected or not, and a rejected submission leaves
\* isLoading false.
C30_HandlersTerminate ==
    /\ \A c \in 0..(MaxClock - 1) : SubmissionInFlight(c) ~> ~SubmissionInFlight(c)
    /\ ManualSyncInFlight ~> (alert = ManualSyncSuccess)
    /\ isLoading ~> ~isLoading
    /\ [][Completes => ~isLoading']_vars
    /\ [][/\ \A form \in ProjectForms :
               (SubmitProject(form) /\ projectFormRejected(form)) => ~isLoading'
          /\ \A fields \in MrvFields :
               (SubmitMRVData(fields) /\ mrvFormRejected(mrvProjectId)) => ~isLoading']_vars

\* C30 witness: a submission made offline whose write was rejected has ended
\* and isLoading is false
C30_Witness ==
    /\ alert.title = "Success"
    /\ Has(alert, "writeFailed") /\ alert.writeFailed
    /\ ~isConnected
    /\ ~isLoading

====
